---- MODULE Spec2Model ----
(***************************************************************************)
(* A model of the SPELL dataflow interpreter: the type system              *)
(* (core/types.rs), the operation registry and the built-in operations     *)
(* (core/ops.rs), the graph schema (core/schema.rs) and the execution      *)
(* engine (core/engine.rs).  The engine's recursion is unfolded into an    *)
(* explicit call stack so that every intermediate evaluator state (result  *)
(* cache, type cache, visiting set) is a state of the model.               *)
(***************************************************************************)
EXTENDS Integers, Sequences, FiniteSets, Bags, TLC

(***************************************************************************)
(* Bounds of the model.                                                    *)
(***************************************************************************)
\* number of calls of the entry points (resolve, run) in one behaviour
MaxCalls == 2
\* nesting depth of Array in the types whose surface form is printed and
\* parsed
MaxDepth == 7

(***************************************************************************)
(* JSON values (serde_json::Value).  A value is a tuple whose first        *)
(* element is the JSON discriminator.  A number keeps serde_json's         *)
(* distinction between an integer ("i") and a float ("f") and is held as   *)
(* a normalised fraction n/d, d > 0, so that f64 division stays exact on   *)
(* the small numbers of the model.                                         *)
(***************************************************************************)
Null == <<"null">>
Bool(b) == <<"bool", b>>
Str(s) == <<"str", s>>
Num(n) == <<"num", "i", n, 1>>
Arr(s) == <<"arr", s>>
Obj(f) == <<"obj", f>>

RECURSIVE Gcd(_, _)
Gcd(a, b) == IF b = 0 THEN a ELSE Gcd(b, a % b)

Abs(n) == IF n < 0 THEN -n ELSE n

\* serde_json::json!(f64): a finite float; n/d reduced, sign on n
Flt(n, d) ==
  LET g == Gcd(Abs(n), Abs(d))
      s == IF d < 0 THEN -1 ELSE 1
  IN  <<"num", "f", (s * n) \div g, (s * d) \div g>>

is_number(v) == v[1] = "num"
is_string(v) == v[1] = "str"
is_boolean(v) == v[1] = "bool"
is_null(v) == v[1] = "null"
is_array(v) == v[1] = "arr"
is_object(v) == v[1] = "obj"

\* format!("{}", value) / format!("{:?}", value): the JSON text of a value,
\* kept as a tagged copy of the value it prints
format(v) == <<"text", v>>

(***************************************************************************)
(* SpellType (types.rs:11-18) and SpellType::matches (types.rs:39-51).     *)
(***************************************************************************)
TNumber == <<"Number">>
TString == <<"String">>
TBoolean == <<"Boolean">>
TAny == <<"Any">>
TUnit == <<"Unit">>
TArray(inner) == <<"Array", inner>>

RECURSIVE matches(_, _)

\* matches with the element check of the Array arm left out
matches_any_array(self, value) ==
  CASE self = TNumber /\ is_number(value) -> TRUE
    [] self = TString /\ is_string(value) -> TRUE
    [] self = TBoolean /\ is_boolean(value) -> TRUE
    [] self = TUnit /\ is_null(value) -> TRUE
    [] self = TAny -> TRUE
    [] self[1] = "Array" /\ is_array(value) -> TRUE
    [] OTHER -> FALSE

matches(self, value) ==
  CASE self = TNumber /\ is_number(value) -> TRUE
    [] self = TString /\ is_string(value) -> TRUE
    [] self = TBoolean /\ is_boolean(value) -> TRUE
    [] self = TUnit /\ is_null(value) -> TRUE
    [] self = TAny -> TRUE
    [] self[1] = "Array" /\ is_array(value) ->
         \A i \in 1..Len(value[2]) : matches(self[2], value[2][i])
    [] OTHER -> FALSE

(***************************************************************************)
(* Error (error.rs:12-62) and Result.  The second element of every error   *)
(* that has a node field is that field.                                    *)
(***************************************************************************)
NodeNotFound(id) == <<"NodeNotFound", id>>
CycleDetected(id) == <<"CycleDetected", id>>
MissingInput(node, port) == <<"MissingInput", node, port>>
TypeMismatch(node, port, expected, actual) ==
  <<"TypeMismatch", node, port, expected, actual>>
InvalidValue(node, port, expected_type, actual_value) ==
  <<"InvalidValue", node, port, expected_type, actual_value>>
InvalidType(node, expected, actual) == <<"InvalidType", node, expected, actual>>
OperationError(node, reason) == <<"OperationError", node, reason>>
UnknownOperation(op) == <<"UnknownOperation", op>>
MissingTypeAnnotation(node, port) == <<"MissingTypeAnnotation", node, port>>

Ok(v) == <<"Ok", v>>
Err(e) == <<"Err", e>>
IsOk(r) == r[1] = "Ok"
IsErr(r) == r[1] = "Err"

(***************************************************************************)
(* The surface form of a type (types.rs:21-37, 54-65).  A string is the    *)
(* sequence of its characters.                                             *)
(***************************************************************************)
NumberText == <<"N", "u", "m", "b", "e", "r">>
StringText == <<"S", "t", "r", "i", "n", "g">>
BooleanText == <<"B", "o", "o", "l", "e", "a", "n">>
AnyText == <<"A", "n", "y">>
UnitText == <<"U", "n", "i", "t">>
ArrayOpenText == <<"A", "r", "r", "a", "y", "<">>

starts_with(s, prefix) ==
  Len(s) >= Len(prefix) /\ SubSeq(s, 1, Len(prefix)) = prefix

ends_with(s, c) == Len(s) >= 1 /\ s[Len(s)] = c

\* str::trim: white space is removed at both ends
RECURSIVE trim(_)
trim(s) ==
  IF s = <<>> THEN s
  ELSE IF s[1] = " " THEN trim(Tail(s))
  ELSE IF s[Len(s)] = " " THEN trim(SubSeq(s, 1, Len(s) - 1))
  ELSE s

RECURSIVE fmt(_)

\* fmt printing the element type of an array between square brackets
fmt_square_brackets(self) ==
  CASE self = TNumber -> NumberText
    [] self = TString -> StringText
    [] self = TBoolean -> BooleanText
    [] self = TAny -> AnyText
    [] self = TUnit -> UnitText
    [] self[1] = "Array" -> <<"A", "r", "r", "a", "y", "[">> \o fmt(self[2]) \o <<"]">>

\* Display for SpellType
fmt(self) ==
  CASE self = TNumber -> NumberText
    [] self = TString -> StringText
    [] self = TBoolean -> BooleanText
    [] self = TAny -> AnyText
    [] self = TUnit -> UnitText
    [] self[1] = "Array" -> ArrayOpenText \o fmt(self[2]) \o <<">">>

\* SpellType::parse: Ok(type) or Err(message)
RECURSIVE parse(_)
parse(text) ==
  LET s == trim(text)
  IN  CASE s = NumberText -> Ok(TNumber)
        [] s = StringText -> Ok(TString)
        [] s = BooleanText -> Ok(TBoolean)
        [] s = AnyText -> Ok(TAny)
        [] s = UnitText -> Ok(TUnit)
        [] OTHER ->
             IF starts_with(s, ArrayOpenText) /\ ends_with(s, ">")
             THEN LET inner == SubSeq(s, 7, Len(s) - 1)
                      inner_type == parse(inner)
                  IN  IF IsErr(inner_type) THEN inner_type
                      ELSE Ok(TArray(inner_type[2]))
             ELSE Err(<<"Unknown type", s>>)

\* the types with Array nested at most depth deep
RECURSIVE SpellTypes(_)
SpellTypes(depth) ==
  LET base == {TNumber, TString, TBoolean, TAny, TUnit}
  IN  IF depth = 0 THEN base
      ELSE base \cup {TArray(inner) : inner \in SpellTypes(depth - 1)}

\* HashMap::new() and HashMap::insert (the new binding replaces an old one)
EmptyMap == <<>>
Insert(m, k, v) == (k :> v) @@ m

(***************************************************************************)
(* Operation registry and input helpers (ops.rs:26-76).                    *)
(***************************************************************************)
RegisteredOps ==
  {"Const", "Print", "Add", "Sub", "Mul", "Div", "Eq", "Gt", "Lt",
   "Switch", "Map", "Reduce", "Len", "Filter"}

\* Ops::get: Some(op) exactly for the registered names
OpsGet(op_name) == op_name \in RegisteredOps

get_input(inputs, name) ==
  IF name \in DOMAIN inputs THEN Ok(inputs[name])
  ELSE Err(MissingInput("unknown", name))

get_f64(inputs, name) ==
  LET val == get_input(inputs, name)
  IN  IF IsErr(val) THEN val
      ELSE IF is_number(val[2]) THEN Ok(val[2])
      ELSE Err(InvalidType("unknown", "number", format(val[2])))

get_bool(inputs, name) ==
  LET val == get_input(inputs, name)
  IN  IF IsErr(val) THEN val
      ELSE IF is_boolean(val[2]) THEN Ok(val[2][2])
      ELSE Err(InvalidType("unknown", "boolean", format(val[2])))

(***************************************************************************)
(* Built-in operations (ops.rs:82-407).  Each returns Ok(output map) or    *)
(* Err(error).                                                             *)
(***************************************************************************)
ConstOp(inputs) ==
  LET val == get_input(inputs, "value")
  IN  IF IsErr(val) THEN val ELSE Ok(Insert(EmptyMap, "out", val[2]))

\* the line written to standard output is not part of the model
PrintOp(inputs) ==
  LET val == get_input(inputs, "in")
  IN  IF IsErr(val) THEN val ELSE Ok(Insert(EmptyMap, "out", val[2]))

MathOp(self, inputs) ==
  LET a == get_f64(inputs, "a")
      b == get_f64(inputs, "b")
  IN  IF IsErr(a) THEN a
      ELSE IF IsErr(b) THEN b
      ELSE
        LET an == a[2][3]
            ad == a[2][4]
            bn == b[2][3]
            bd == b[2][4]
        IN  CASE self = "Add" ->
                   Ok(Insert(EmptyMap, "out", Flt(an * bd + bn * ad, ad * bd)))
              [] self = "Sub" ->
                   Ok(Insert(EmptyMap, "out", Flt(an * bd - bn * ad, ad * bd)))
              [] self = "Mul" ->
                   Ok(Insert(EmptyMap, "out", Flt(an * bn, ad * bd)))
              [] self = "Div" ->
                   IF bn = 0
                   THEN Err(OperationError("unknown", "Division by zero"))
                   ELSE Ok(Insert(EmptyMap, "out", Flt(an * bd, ad * bn)))

LogicOp(self, inputs) ==
  LET a == get_input(inputs, "a")
      b == get_input(inputs, "b")
  IN  IF IsErr(a) THEN a
      ELSE IF IsErr(b) THEN b
      ELSE IF is_number(a[2]) /\ is_number(b[2])
      THEN LET f1 == a[2][3] * b[2][4]
               f2 == b[2][3] * a[2][4]
               res == CASE self = "Eq" -> f1 = f2
                        [] self = "Gt" -> f1 > f2
                        [] self = "Lt" -> f1 < f2
           IN  Ok(Insert(EmptyMap, "out", Bool(res)))
      ELSE IF self = "Eq"
      THEN Ok(Insert(EmptyMap, "out", Bool(a[2] = b[2])))
      ELSE Err(InvalidType("unknown", "comparable numbers",
                           "mixed/non-numeric types"))

SwitchOp(inputs) ==
  LET cond == get_bool(inputs, "cond")
  IN  IF IsErr(cond) THEN cond
      ELSE IF "true" \in DOMAIN inputs /\ "false" \in DOMAIN inputs
      THEN Ok(Insert(EmptyMap, "out",
                     IF cond[2] THEN inputs["true"] ELSE inputs["false"]))
      ELSE
        LET data == get_input(inputs, "data")
        IN  IF IsErr(data) THEN data
            ELSE Ok(Insert(Insert(EmptyMap,
                                  IF cond[2] THEN "true" ELSE "false", data[2]),
                           "out", data[2]))

LenOp(inputs) ==
  LET list == get_input(inputs, "list")
  IN  IF IsErr(list) THEN list
      ELSE IF ~is_array(list[2])
      THEN Err(InvalidType("Len", "array", "non-array"))
      ELSE Ok(Insert(EmptyMap, "out", Num(Len(list[2][2]))))

\* op_result.get("out").unwrap_or(&Value::Null)
OutOrNull(op_result) ==
  IF "out" \in DOMAIN op_result THEN op_result["out"] ELSE Null

\* OpInputs with a static parameter winning over the item
OpInputs_params_win(static_params, item_arg, item) ==
  static_params @@ (item_arg :> item)

\* the static parameters overlaid with the current item (ops.rs:254-260)
OpInputs(static_params, item_arg, item) == Insert(static_params, item_arg, item)

RECURSIVE execute(_, _)
RECURSIVE MapLoop(_, _, _, _, _)
RECURSIVE ReduceLoop(_, _, _, _, _, _)
RECURSIVE FilterLoop(_, _, _, _, _)

\* the loop of MapOp::execute from element i on, result_list collected so far
MapLoop(op_name, item_arg, static_params, list, result_list) ==
  IF Len(result_list) = Len(list) THEN Ok(Insert(EmptyMap, "out", Arr(result_list)))
  ELSE
    LET item == list[Len(result_list) + 1]
        op_result == execute(op_name, OpInputs(static_params, item_arg, item))
    IN  IF IsErr(op_result) THEN op_result
        ELSE MapLoop(op_name, item_arg, static_params, list,
                     Append(result_list, OutOrNull(op_result[2])))

\* the loop of ReduceOp::execute over the elements from index i on
ReduceLoop(op_name, acc_arg, item_arg, list, i, acc) ==
  IF i > Len(list) THEN Ok(Insert(EmptyMap, "out", acc))
  ELSE
    LET op_inputs == Insert(Insert(EmptyMap, acc_arg, acc), item_arg, list[i])
        op_result == execute(op_name, op_inputs)
    IN  IF IsErr(op_result) THEN op_result
        ELSE ReduceLoop(op_name, acc_arg, item_arg, list, i + 1,
                        OutOrNull(op_result[2]))

\* FilterLoop keeping every element
FilterLoop_keep_all(op_name, item_arg, static_params, list, i) ==
  Ok(SubSeq(list, i, Len(list)))

\* the loop of FilterOp::execute over the elements from index i on
FilterLoop(op_name, item_arg, static_params, list, i) ==
  IF i > Len(list) THEN Ok(<<>>)
  ELSE
    LET item == list[i]
        op_result == execute(op_name, OpInputs(static_params, item_arg, item))
    IN  IF IsErr(op_result) THEN op_result
        ELSE
          LET keep == /\ "out" \in DOMAIN op_result[2]
                      /\ is_boolean(op_result[2]["out"])
                      /\ op_result[2]["out"][2]
              rest == FilterLoop(op_name, item_arg, static_params, list, i + 1)
          IN  IF IsErr(rest) THEN rest
              ELSE Ok(IF keep THEN <<item>> \o rest[2] ELSE rest[2])

\* MapOp taking an unregistered apply_op for an operation that passes the
\* list through
MapOp_unknown_passes(inputs) ==
  LET list == get_input(inputs, "list")
      op_name == get_input(inputs, "apply_op")
      arg == get_input(inputs, "arg")
  IN  IF IsErr(list) THEN list
      ELSE IF ~is_array(list[2])
      THEN Err(InvalidType("Map", "array", "non-array"))
      ELSE IF IsErr(op_name) THEN op_name
      ELSE IF ~is_string(op_name[2])
      THEN Err(InvalidType("Map", "string (op name)", "non-string"))
      ELSE IF IsErr(arg) THEN arg
      ELSE IF "params" \in DOMAIN inputs /\ ~is_object(inputs["params"])
      THEN Err(InvalidType("Map", "object (params)", "non-object"))
      ELSE IF ~OpsGet(op_name[2][2]) THEN Ok(Insert(EmptyMap, "out", list[2]))
      ELSE
        LET item_arg == IF is_string(arg[2]) THEN arg[2][2] ELSE "in"
            static_params == IF "params" \in DOMAIN inputs
                             THEN inputs["params"][2] ELSE EmptyMap
        IN  MapLoop(op_name[2][2], item_arg, static_params, list[2][2], <<>>)

MapOp(inputs) ==
  LET list == get_input(inputs, "list")
      op_name == get_input(inputs, "apply_op")
      arg == get_input(inputs, "arg")
  IN  IF IsErr(list) THEN list
      ELSE IF ~is_array(list[2])
      THEN Err(InvalidType("Map", "array", "non-array"))
      ELSE IF IsErr(op_name) THEN op_name
      ELSE IF ~is_string(op_name[2])
      THEN Err(InvalidType("Map", "string (op name)", "non-string"))
      ELSE IF IsErr(arg) THEN arg
      ELSE IF "params" \in DOMAIN inputs /\ ~is_object(inputs["params"])
      THEN Err(InvalidType("Map", "object (params)", "non-object"))
      ELSE IF ~OpsGet(op_name[2][2]) THEN Err(UnknownOperation(op_name[2][2]))
      ELSE
        LET item_arg == IF is_string(arg[2]) THEN arg[2][2] ELSE "in"
            static_params == IF "params" \in DOMAIN inputs
                             THEN inputs["params"][2] ELSE EmptyMap
        IN  MapLoop(op_name[2][2], item_arg, static_params, list[2][2], <<>>)

ReduceOp(inputs) ==
  LET list == get_input(inputs, "list")
      op_name == get_input(inputs, "apply_op")
      initial == get_input(inputs, "initial")
      acc_arg == get_input(inputs, "acc_arg")
      item_arg == get_input(inputs, "item_arg")
  IN  IF IsErr(list) THEN list
      ELSE IF ~is_array(list[2])
      THEN Err(InvalidType("Reduce", "array", "non-array"))
      ELSE IF IsErr(op_name) THEN op_name
      ELSE IF ~is_string(op_name[2])
      THEN Err(InvalidType("Reduce", "string (op name)", "non-string"))
      ELSE IF IsErr(initial) THEN initial
      ELSE IF IsErr(acc_arg) THEN acc_arg
      ELSE IF IsErr(item_arg) THEN item_arg
      ELSE IF ~OpsGet(op_name[2][2]) THEN Err(UnknownOperation(op_name[2][2]))
      ELSE ReduceLoop(op_name[2][2],
                      IF is_string(acc_arg[2]) THEN acc_arg[2][2] ELSE "a",
                      IF is_string(item_arg[2]) THEN item_arg[2][2] ELSE "b",
                      list[2][2], 1, initial[2])

FilterOp(inputs) ==
  LET list == get_input(inputs, "list")
      op_name == get_input(inputs, "apply_op")
      arg == get_input(inputs, "arg")
  IN  IF IsErr(list) THEN list
      ELSE IF ~is_array(list[2])
      THEN Err(InvalidType("Filter", "array", "non-array"))
      ELSE IF IsErr(op_name) THEN op_name
      ELSE IF ~is_string(op_name[2])
      THEN Err(InvalidType("Filter", "string (op name)", "non-string"))
      ELSE IF IsErr(arg) THEN arg
      ELSE IF "params" \in DOMAIN inputs /\ ~is_object(inputs["params"])
      THEN Err(InvalidType("Filter", "object (params)", "non-object"))
      ELSE IF ~OpsGet(op_name[2][2]) THEN Err(UnknownOperation(op_name[2][2]))
      ELSE
        LET item_arg == IF is_string(arg[2]) THEN arg[2][2] ELSE "a"
            static_params == IF "params" \in DOMAIN inputs
                             THEN inputs["params"][2] ELSE EmptyMap
            kept == FilterLoop(op_name[2][2], item_arg, static_params,
                               list[2][2], 1)
        IN  IF IsErr(kept) THEN kept
            ELSE Ok(Insert(EmptyMap, "out", Arr(kept[2])))

\* Operation::execute of the operation Ops::get(op_name) returns
execute(op_name, inputs) ==
  CASE op_name = "Const" -> ConstOp(inputs)
    [] op_name = "Print" -> PrintOp(inputs)
    [] op_name \in {"Add", "Sub", "Mul", "Div"} -> MathOp(op_name, inputs)
    [] op_name \in {"Eq", "Gt", "Lt"} -> LogicOp(op_name, inputs)
    [] op_name = "Switch" -> SwitchOp(inputs)
    [] op_name = "Map" -> MapOp(inputs)
    [] op_name = "Reduce" -> ReduceOp(inputs)
    [] op_name = "Len" -> LenOp(inputs)
    [] op_name = "Filter" -> FilterOp(inputs)


(***************************************************************************)
(* Graph schema (schema.rs:12-48) and TypedValue (types.rs:83-122).        *)
(* A node is [op, returns, args]; returns is <<>> (None) or <<T>>          *)
(* (Some(T)); args maps a port name to the JSON of the port, here already  *)
(* told apart by what serde's untagged decode makes of it.                 *)
(***************************************************************************)
None == <<>>
Some(t) == <<t>>
Node(op, returns, args) == [op |-> op, returns |-> returns, args |-> args]

\* {"ref": r, "type": t}, {"literal": v, "type": t}, and JSON that decodes
\* to neither (no type, an unparsable type string, not an object)
Ref(r, t) == <<"ref", r, t>>
Lit(v, t) == <<"literal", v, t>>
Undecodable == <<"undecodable">>

is_reference(typed_value) == typed_value[1] = "ref"
get_reference(typed_value) == typed_value[2]
get_literal(typed_value) == typed_value[2]
get_type(typed_value) == typed_value[3]

\* Node::get_all_typed_args: port -> Ok(TypedValue) | Err(MissingTypeAnnotation)
get_all_typed_args(node) ==
  [key \in (DOMAIN node.args) \ {"op", "returns"} |->
     IF node.args[key] = Undecodable
     THEN Err(MissingTypeAnnotation("", key))
     ELSE Ok(node.args[key])]

\* format!("{}:{}", node_id, port)
CacheKey(node_id, port) == node_id \o ":" \o port

(***************************************************************************)
(* Engine (engine.rs).  The pure parts of execute_node and                 *)
(* resolve_typed_value first, the state machine after them.                *)
(***************************************************************************)

\* rewrite with the OperationError arm left out
rewrite_without_operation_error(e, node_id) ==
  CASE e[1] = "MissingInput" -> MissingInput(node_id, e[3])
    [] e[1] = "InvalidType" -> InvalidType(node_id, e[3], e[4])
    [] OTHER -> e

\* the map_err of engine.rs:84-93: the node field of an operation's error
\* is replaced by the current node-id
rewrite(e, node_id) ==
  CASE e[1] = "MissingInput" -> MissingInput(node_id, e[3])
    [] e[1] = "InvalidType" -> InvalidType(node_id, e[3], e[4])
    [] e[1] = "OperationError" -> OperationError(node_id, e[3])
    [] OTHER -> e

\* step 5 (engine.rs:79-94): registry lookup, execution, error rewriting
execute_operation(node_id, node, resolved_args) ==
  IF ~OpsGet(node.op) THEN Err(UnknownOperation(node.op))
  ELSE LET result == execute(node.op, resolved_args)
       IN  IF IsErr(result) THEN Err(rewrite(result[2], node_id)) ELSE result

\* step 6 (engine.rs:96-112): Err(InvalidValue) when the declared return
\* type does not match "out", else Ok(the type cache after the step)
type_check_output(node_id, node, result, tc) ==
  IF node.returns # None /\ "out" \in DOMAIN result
  THEN IF ~matches(node.returns[1], result["out"])
       THEN Err(InvalidValue(node_id, "out", node.returns[1],
                             format(result["out"])))
       ELSE Ok(Insert(tc, node_id, node.returns[1]))
  ELSE Ok(tc)

\* cache_results without the write of "out" under the bare node-id
cache_results_without_out(node_id, result, c) ==
  LET ports == (DOMAIN result) \ {"out"}
      keys == {CacheKey(node_id, port) : port \in ports}
  IN  [k \in (DOMAIN c) \cup keys |->
         IF k \in keys
         THEN result[CHOOSE port \in ports : CacheKey(node_id, port) = k]
         ELSE c[k]]

\* step 7 (engine.rs:114-123): "out" under the bare node-id, every other
\* port under "<node-id>:<port>"; HashMap::insert replaces
cache_results(node_id, result, c) ==
  LET ports == (DOMAIN result) \ {"out"}
      keys == {CacheKey(node_id, port) : port \in ports}
      withOut == IF "out" \in DOMAIN result
                 THEN Insert(c, node_id, result["out"]) ELSE c
  IN  [k \in (DOMAIN withOut) \cup keys |->
         IF k \in keys
         THEN result[CHOOSE port \in ports : CacheKey(node_id, port) = k]
         ELSE withOut[k]]

\* the last expression of execute_node (engine.rs:127-130)
produce_result(node_id, result) ==
  IF "out" \in DOMAIN result THEN Ok(result["out"])
  ELSE Err(OperationError(node_id, "Operation produced no 'out' output"))

\* steps 5-9 of execute_node for a node whose arguments are resolved:
\* the value returned and the two caches and the visiting set afterwards
finish_node(node_id, node, resolved_args, c, tc, vis) ==
  LET result == execute_operation(node_id, node, resolved_args)
      unchanged == [cache |-> c, type_cache |-> tc, visiting |-> vis]
  IN  IF IsErr(result) THEN [ret |-> result] @@ unchanged
      ELSE
        LET checked == type_check_output(node_id, node, result[2], tc)
        IN  IF IsErr(checked) THEN [ret |-> checked] @@ unchanged
            ELSE [ret |-> produce_result(node_id, result[2]),
                  cache |-> cache_results(node_id, result[2], c),
                  type_cache |-> checked[2],
                  visiting |-> vis \ {node_id}]

\* resolve_typed_value on a literal (engine.rs:174-184)
resolve_literal(typed_value, node_id, port_name) ==
  IF ~matches(get_type(typed_value), get_literal(typed_value))
  THEN Err(InvalidValue(node_id, port_name, get_type(typed_value),
                        format(get_literal(typed_value))))
  ELSE Ok(get_literal(typed_value))

\* check_reference without the type check
check_reference_unchecked(typed_value, node_id, port_name, resolved, tc) ==
  Ok(resolved)

\* resolve_typed_value on a reference, after execute_node(reference)
\* returned Ok(resolved) (engine.rs:159-173)
check_reference(typed_value, node_id, port_name, resolved, tc) ==
  IF ~matches(get_type(typed_value), resolved)
  THEN LET reference == get_reference(typed_value)
           actual_type == IF reference \in DOMAIN tc THEN tc[reference]
                          ELSE TAny
       IN  Err(TypeMismatch(node_id, port_name, get_type(typed_value),
                            actual_type))
  ELSE Ok(resolved)

(***************************************************************************)
(* The state.                                                              *)
(*   graph, cache, type_cache   the fields of Engine (engine.rs:18-22)     *)
(*   visiting                   the HashSet of the traversal in progress   *)
(*   stack                      the activations of execute_node in         *)
(*                              progress, the innermost last               *)
(*   ret                        what an activation has just returned to    *)
(*                              its caller: <<node_id, Result, snap>>,     *)
(*                              snap the history the activation carried    *)
(*   mode, queue, diag, calls   the entry point in progress, the node-ids  *)
(*                              run() has still to iterate, the bag of     *)
(*                              diagnostic lines <<node_id, Err>> of the   *)
(*                              run() in progress, the number of           *)
(*                              entry-point calls made                     *)
(*   ty, text, back             a type, its surface form once printed, and *)
(*                              what parse made of the surface form        *)
(* History variables, read by the properties only:                         *)
(*   last                       <<node_id, Result, mode>> of the last      *)
(*                              top-level traversal that ended             *)
(*   execs                      operation executions (engine.rs:83) of the *)
(*                              traversal in progress                      *)
(*   port                       the last reference port the traversal in   *)
(*                              progress resolved: <<TypedValue, node-id   *)
(*                              evaluated, its Result, the port's Result,  *)
(*                              consuming node-id, port name>>             *)
(*   raised                     the node whose operation failed in the     *)
(*                              traversal in progress                      *)
(*   seen                       cache entries as first observed at the end *)
(*                              of a top-level traversal                   *)
(*   ran                        the bag of <<node_id, returned a value>>   *)
(*                              of the operation executions since the      *)
(*                              entry point in progress was called         *)
(***************************************************************************)
VARIABLES graph, cache, type_cache, visiting, stack, ret, mode, queue, diag,
          calls, last, execs, port, raised, seen, ran, ty, text, back

vars == <<graph, cache, type_cache, visiting, stack, ret, mode, queue, diag,
          calls, last, execs, port, raised, seen, ran, ty, text, back>>

engine == <<graph, cache, type_cache>>
surface == <<ty, text, back>>
evaluator == <<graph, cache, type_cache, visiting, stack, ret, mode, queue,
               diag, calls, last, execs, port, raised, seen, ran>>
NoText == <<>>
history == <<last, seen, ran>>

NoRet == <<>>
NoNode == Node("", None, EmptyMap)

\* the ports other than "out" a registered operation can produce
\* (SwitchOp, ops.rs:200-204)
SidePorts == {"true", "false"}

\* the cache keys an evaluation of node_id can write
OwnKeys(node_id) == {node_id} \cup {CacheKey(node_id, p) : p \in SidePorts}

Restrict(f, S) == [k \in (DOMAIN f) \cap S |-> f[k]]

\* an activation of execute_node(node_id, visiting) at its first line;
\* snap is the history of the cache entries under its own keys at entry
Activation(node_id) ==
  [node_id |-> node_id, pc |-> "enter", node |-> NoNode,
   typed_args |-> EmptyMap, pending |-> {}, resolved_args |-> EmptyMap,
   key |-> "", snap |-> Restrict(cache, OwnKeys(node_id))]

Top == stack[Len(stack)]
\* the ports the argument loop of the innermost activation has still to take
Pending == IF stack = <<>> THEN {} ELSE Top.pending
Pop == SubSeq(stack, 1, Len(stack) - 1)
SetTop(f) == [stack EXCEPT ![Len(stack)] = f]

\* an activation returns r to its caller
Return(r) ==
  /\ stack' = Pop
  /\ ret' = <<Top.node_id, r, Top.snap>>

(***************************************************************************)
(* The graphs the evaluator is constructed over: the scenarios of the      *)
(* specification and graphs that exercise every error kind, shared         *)
(* dependencies, reference cycles, the higher-order operations, both       *)
(* Switch modes, and node-ids that contain a ':'.                          *)
(***************************************************************************)
ConstNode(v, t) == Node("Const", Some(t), [value |-> Lit(v, t)])
NumList(s) == Arr([i \in 1..Len(s) |-> Num(s[i])])

\* S1, with a dependency shared by two nodes and by two ports of one node
GraphArith ==
  [a |-> ConstNode(Num(2), TNumber),
   b |-> ConstNode(Num(3), TNumber),
   s |-> Node("Add", Some(TNumber),
              [a |-> Ref("a", TNumber), b |-> Ref("b", TNumber)]),
   t |-> Node("Mul", Some(TNumber),
              [a |-> Ref("s", TNumber), b |-> Ref("a", TNumber)])]

GraphShared ==
  [a |-> ConstNode(Num(2), TNumber),
   u |-> Node("Sub", Some(TNumber),
              [a |-> Ref("a", TNumber), b |-> Ref("a", TNumber)]),
   v |-> Node("Eq", Some(TBoolean),
              [a |-> Ref("u", TAny), b |-> Ref("a", TAny)])]

\* S2: a cycle of two nodes
GraphCycle ==
  [x |-> Node("Const", Some(TNumber), [value |-> Ref("y", TNumber)]),
   y |-> Node("Const", Some(TNumber), [value |-> Ref("x", TNumber)])]

\* a self-loop, and a node that leads into a cycle without being on it
GraphLoop ==
  [x |-> Node("Const", None, [value |-> Ref("x", TAny)]),
   a |-> Node("Print", None, ("in" :> Ref("b", TAny))),
   b |-> Node("Const", None, [value |-> Ref("c", TAny)]),
   c |-> Node("Const", None, [value |-> Ref("b", TAny)])]

\* a cycle whose nodes have other ports: a literal that does not match,
\* a reference to an absent node
GraphCyclePorts ==
  [x |-> Node("Add", Some(TNumber),
              [a |-> Ref("y", TNumber), b |-> Lit(Str("oops"), TNumber)]),
   y |-> Node("Add", Some(TNumber),
              [a |-> Ref("x", TNumber), b |-> Ref("ghost", TNumber)])]

\* S3: a reference whose declared type does not match, and one that does
GraphMismatch ==
  [n |-> ConstNode(Num(1), TNumber),
   m |-> Node("Const", None, [value |-> Lit(Bool(TRUE), TAny)]),
   bad |-> Node("Print", None, ("in" :> Ref("n", TString))),
   ok |-> Node("Lt", Some(TBoolean),
               [a |-> Ref("n", TAny), b |-> Ref("m", TBoolean)])]

\* S4, and a node that depends on the failing one
GraphDiv ==
  [z |-> ConstNode(Num(0), TNumber),
   o |-> ConstNode(Num(1), TNumber),
   d |-> Node("Div", Some(TNumber),
              [a |-> Ref("o", TNumber), b |-> Ref("z", TNumber)]),
   e |-> Node("Add", Some(TNumber),
              [a |-> Ref("d", TNumber), b |-> Ref("o", TNumber)])]

\* S5, S6 and a Reduce
GraphMap ==
  [L |-> ConstNode(NumList(<<1, 2, 3>>), TArray(TNumber)),
   M |-> Node("Map", Some(TArray(TNumber)),
              [list |-> Ref("L", TArray(TNumber)),
               apply_op |-> Lit(Str("Add"), TString),
               arg |-> Lit(Str("a"), TString),
               params |-> Lit(Obj([b |-> Num(10)]), TAny)]),
   F |-> Node("Filter", Some(TArray(TNumber)),
              [list |-> Ref("L", TArray(TNumber)),
               apply_op |-> Lit(Str("Gt"), TString),
               arg |-> Lit(Str("a"), TString),
               params |-> Lit(Obj([b |-> Num(1)]), TAny)]),
   R |-> Node("Reduce", Some(TNumber),
              [list |-> Ref("L", TArray(TNumber)),
               apply_op |-> Lit(Str("Add"), TString),
               initial |-> Lit(Num(0), TNumber),
               acc_arg |-> Lit(Str("a"), TString),
               item_arg |-> Lit(Str("b"), TString)])]

\* higher-order operations whose inner operation fails, and a node that
\* depends on one of them
GraphMapErr ==
  [L |-> ConstNode(NumList(<<1, 0>>), TArray(TNumber)),
   MD |-> Node("Map", Some(TArray(TNumber)),
               [list |-> Ref("L", TArray(TAny)),
                apply_op |-> Lit(Str("Div"), TString),
                arg |-> Lit(Str("b"), TString),
                params |-> Lit(Obj([a |-> Num(1)]), TAny)]),
   FG |-> Node("Filter", None,
               [list |-> Ref("L", TArray(TAny)),
                apply_op |-> Lit(Str("Gt"), TString),
                arg |-> Lit(Str("a"), TString),
                params |-> Lit(Obj([b |-> Str("x")]), TAny)]),
   PD |-> Node("Print", None, ("in" :> Ref("MD", TAny)))]

\* operations that reject their own inputs
GraphOpErr ==
  [k |-> ConstNode(Num(1), TNumber),
   LN |-> Node("Len", Some(TNumber), [list |-> Ref("k", TAny)]),
   P |-> Node("Print", None, [value |-> Ref("LN", TNumber)]),
   G |-> Node("Gt", None, [a |-> Ref("k", TAny), b |-> Lit(Null, TUnit)])]

\* a Map whose apply_op names a graph node, not an operation, a Map
\* without the arg port, a Reduce whose inner operation lacks its input
GraphMapUnknown ==
  [k |-> ConstNode(Num(1), TNumber),
   MU |-> Node("Map", None,
               [list |-> Lit(NumList(<<>>), TArray(TString)),
                apply_op |-> Lit(Str("k"), TString),
                arg |-> Lit(Str("a"), TString)]),
   MA |-> Node("Map", None,
               [list |-> Lit(NumList(<<1>>), TArray(TNumber)),
                apply_op |-> Lit(Str("Print"), TString)]),
   RC |-> Node("Reduce", None,
               [list |-> Lit(NumList(<<1>>), TArray(TAny)),
                apply_op |-> Lit(Str("Const"), TString),
                initial |-> Lit(Num(0), TNumber),
                acc_arg |-> Lit(Str("a"), TString),
                item_arg |-> Lit(Str("b"), TString)])]

\* higher-order operations without the ports that name the argument keys,
\* and a Map whose arg port is no string
GraphDefaults ==
  [FA |-> Node("Filter", None,
               [list |-> Lit(NumList(<<1, 2>>), TArray(TNumber)),
                apply_op |-> Lit(Str("Eq"), TString),
                params |-> Lit(Obj([b |-> Num(1)]), TAny)]),
   RA |-> Node("Reduce", None,
               [list |-> Lit(NumList(<<1, 2>>), TArray(TNumber)),
                apply_op |-> Lit(Str("Sub"), TString),
                initial |-> Lit(Num(0), TNumber)]),
   RI |-> Node("Reduce", None,
               [list |-> Lit(NumList(<<1, 2>>), TArray(TNumber)),
                apply_op |-> Lit(Str("Sub"), TString),
                initial |-> Lit(Num(0), TNumber),
                acc_arg |-> Lit(Str("a"), TString)]),
   MN |-> Node("Map", None,
               [list |-> Lit(NumList(<<1, 2>>), TArray(TNumber)),
                apply_op |-> Lit(Str("Print"), TString),
                arg |-> Lit(Num(0), TNumber)])]

\* an unregistered operation, a reference to an absent node, an
\* undecodable port
GraphErrors ==
  [k |-> ConstNode(Num(1), TNumber),
   u |-> Node("Frob", None, [a |-> Ref("k", TNumber)]),
   w |-> Node("Const", None, [value |-> Ref("ghost", TAny)]),
   p |-> Node("Add", None, [a |-> Undecodable, b |-> Ref("k", TNumber)])]

\* a literal that does not match its port, a return type that does not
\* match the value, an unregistered operation with a failing port
GraphValues ==
  [q |-> Node("Const", None, [value |-> Lit(Str("x"), TNumber)]),
   r |-> Node("Const", Some(TNumber), [value |-> Lit(Str("x"), TString)]),
   u |-> Node("Frob", None, [a |-> Ref("r", TAny)])]

\* Switch in routing mode, and a node whose id is the composite key of
\* the Switch node's "true" port
GraphRoute ==
  ("s" :> Node("Switch", Some(TString),
               [cond |-> Lit(Bool(TRUE), TBoolean),
                data |-> Lit(Str("str"), TString)]))
  @@ ("s:true" :> ConstNode(Num(1), TNumber))
  @@ ("c" :> Node("Const", None, [value |-> Ref("s:true", TAny)]))

\* as GraphRoute, the colliding node depending on the Switch node and
\* failing after it
GraphRouteDiv ==
  ("s" :> Node("Switch", None,
               [cond |-> Lit(Bool(FALSE), TBoolean),
                data |-> Ref("f", TNumber)]))
  @@ ("f" :> ConstNode(Num(5), TNumber))
  @@ ("s:false" :> Node("Div", Some(TNumber),
                        [a |-> Ref("s", TNumber), b |-> Lit(Num(0), TNumber)]))

\* a reference to a port of a Switch node through its composite key,
\* which is no node of the graph
GraphRouteRef ==
  [s |-> Node("Switch", Some(TNumber),
              [cond |-> Lit(Bool(TRUE), TBoolean),
               data |-> Lit(Num(7), TNumber)]),
   c |-> Node("Const", Some(TNumber), [value |-> Ref("s:true", TNumber)])]

\* a self-loop on a node whose id is the composite key of a Switch port
GraphRouteLoop ==
  ("s" :> Node("Switch", Some(TNumber),
               [cond |-> Lit(Bool(TRUE), TBoolean),
                data |-> Lit(Num(7), TNumber)]))
  @@ ("s:true" :> Node("Const", None, [value |-> Ref("s:true", TAny)]))

\* as GraphRoute, the colliding id consumed through a port that declares
\* the type the colliding node returns
GraphRouteTyped ==
  ("s" :> Node("Switch", None,
               [cond |-> Lit(Bool(TRUE), TBoolean),
                data |-> Lit(Str("str"), TString)]))
  @@ ("s:true" :> ConstNode(Num(1), TNumber))
  @@ ("c" :> Node("Print", None, ("in" :> Ref("s:true", TNumber))))

\* Switch in routing mode taking the "true" port, an independent node
\* whose id is the composite key of its "false" port, and a Switch with
\* both branches and data
GraphRouteOther ==
  ("s" :> Node("Switch", None,
               [cond |-> Lit(Bool(TRUE), TBoolean),
                data |-> Lit(Str("str"), TString)]))
  @@ ("s:false" :> ConstNode(Num(1), TNumber))
  @@ ("b" :> Node("Switch", Some(TString),
                  ("cond" :> Lit(Bool(FALSE), TBoolean))
                  @@ ("true" :> Lit(Num(1), TNumber))
                  @@ ("false" :> Lit(Str("no"), TString))
                  @@ ("data" :> Lit(Null, TUnit))))

\* a node whose id is the composite key of a port of the Switch node it
\* depends on and which also refers to its own id
GraphRouteSelf ==
  ("s" :> Node("Switch", None,
               [cond |-> Lit(Bool(TRUE), TBoolean),
                data |-> Lit(Num(7), TNumber)]))
  @@ ("s:true" :> Node("Add", Some(TNumber),
                       [a |-> Ref("s", TNumber), b |-> Ref("s:true", TNumber)]))

\* a node whose operation fails on the value of a node whose id is the
\* composite key of a Switch port, and a node that depends on it
GraphRouteRetry ==
  ("q" :> Node("Switch", None,
               [cond |-> Lit(Bool(TRUE), TBoolean),
                data |-> Lit(Num(5), TNumber)]))
  @@ ("q:true" :> ConstNode(Num(0), TNumber))
  @@ ("X" :> Node("Div", Some(TNumber),
                  [a |-> Lit(Num(1), TNumber), b |-> Ref("q:true", TNumber)]))
  @@ ("Y" :> Node("Print", None, ("in" :> Ref("X", TAny))))

\* Switch in branch-selection mode
GraphBranch ==
  [c |-> ConstNode(Bool(TRUE), TBoolean),
   t |-> ConstNode(Num(1), TNumber),
   g |-> ConstNode(Str("no"), TString),
   sw |-> Node("Switch", Some(TNumber),
               ("cond" :> Ref("c", TBoolean)) @@ ("true" :> Ref("t", TAny))
               @@ ("false" :> Ref("g", TAny)))]

\* Switch in branch-selection mode, the unselected branch failing
GraphBranchFail ==
  [c |-> ConstNode(Bool(TRUE), TBoolean),
   t |-> ConstNode(Num(1), TNumber),
   f |-> Node("Div", None,
              [a |-> Lit(Num(1), TNumber), b |-> Lit(Num(0), TNumber)]),
   sx |-> Node("Switch", None,
               ("cond" :> Ref("c", TBoolean)) @@ ("true" :> Ref("t", TAny))
               @@ ("false" :> Ref("f", TAny)) @@ ("data" :> Lit(Null, TUnit)))]

\* Switch in branch-selection mode, the unselected branch leading back to
\* the Switch node
GraphBranchCycle ==
  [c |-> ConstNode(Bool(TRUE), TBoolean),
   t |-> ConstNode(Num(1), TNumber),
   h |-> Node("Print", None, ("in" :> Ref("sy", TAny))),
   sy |-> Node("Switch", None,
               ("cond" :> Ref("c", TBoolean)) @@ ("true" :> Ref("t", TAny))
               @@ ("false" :> Ref("h", TAny)))]

\* one node with one literal port {literal: v, type: t}
GraphLiteral(v, t) == [n |-> Node("Const", None, [value |-> Lit(v, t)])]

\* JSON values of every kind, arrays empty, uniform, mixed and nested
LiteralValues ==
  {Num(1), Str("x"), Bool(TRUE), Null, Obj([b |-> Num(1)]),
   Arr(<<>>), Arr(<<Num(1), Num(2)>>), Arr(<<Num(1), Str("x")>>),
   Arr(<<Arr(<<>>), Arr(<<Num(1)>>)>>), Arr(<<Arr(<<Str("x")>>)>>)}

\* SpellType values, Array nested to depth two
LiteralTypes ==
  {TNumber, TString, TBoolean, TUnit, TAny, TArray(TNumber), TArray(TAny),
   TArray(TArray(TNumber))}

GraphsLiteral == {GraphLiteral(v, t) : v \in LiteralValues, t \in LiteralTypes}

\* a Map node and a Filter node over the same literal inputs
GraphApply(list, apply_op, arg, params) ==
  LET args == [list |-> Lit(NumList(list), TArray(TNumber)),
               apply_op |-> Lit(Str(apply_op), TString),
               arg |-> Lit(Str(arg), TString),
               params |-> Lit(Obj(params), TAny)]
  IN  [M |-> Node("Map", None, args), F |-> Node("Filter", None, args)]

\* lists empty and not, inner operations that succeed, fail on an element,
\* lack an input, return non-booleans, and a name that is not registered;
\* static parameters with and without the item key
ApplyLists == {<<>>, <<2, 0, 1>>}
ApplyOps == {"Add", "Div", "Gt", "Eq", "Frob"}
ApplyArgs == {"a", "b"}
ApplyParams == {[b |-> Num(1)], [a |-> Num(1)], [a |-> Num(5), b |-> Num(1)]}

GraphsApply ==
  {GraphApply(list, apply_op, arg, params) :
     list \in ApplyLists, apply_op \in ApplyOps, arg \in ApplyArgs,
     params \in ApplyParams}

\* n has two ports that do not decode; m has one, and a literal that does not
\* match its declared type
GraphUntyped ==
  [n |-> Node("Add", None, [a |-> Undecodable, b |-> Undecodable]),
   m |-> Node("Add", Some(TNumber),
              [a |-> Undecodable, b |-> Lit(Str("x"), TNumber)])]

GraphsNamed ==
  {GraphUntyped, GraphBranchCycle, GraphArith, GraphShared, GraphCycle, GraphLoop, GraphCyclePorts,
   GraphMismatch, GraphDiv, GraphMap, GraphMapErr, GraphOpErr,
   GraphMapUnknown, GraphDefaults, GraphErrors, GraphValues, GraphRoute, GraphRouteDiv,
   GraphRouteRef, GraphRouteLoop, GraphRouteTyped, GraphRouteOther,
   GraphRouteSelf, GraphRouteRetry, GraphBranch,
   GraphBranchFail}

Graphs == GraphsNamed \cup GraphsLiteral \cup GraphsApply

\* node-ids outside the graph that resolve may be called with
ForeignIds == {"ghost", "s:true"}

(***************************************************************************)
(* Engine::new (engine.rs:25-31): both caches empty.                       *)
(***************************************************************************)
Init ==
  /\ graph \in Graphs
  /\ ty = TAny
  /\ text = NoText
  /\ back = NoRet
  /\ cache = EmptyMap
  /\ type_cache = EmptyMap
  /\ visiting = {}
  /\ stack = <<>>
  /\ ret = NoRet
  /\ mode = "idle"
  /\ queue = {}
  /\ diag = EmptyBag
  /\ calls = 0
  /\ last = NoRet
  /\ execs = 0
  /\ port = <<>>
  /\ raised = ""
  /\ seen = EmptyMap
  /\ ran = EmptyBag

\* begin_traversal on the visiting set the last traversal left behind
begin_traversal_same_visiting(node_id) ==
  /\ visiting' = visiting
  /\ stack' = <<Activation(node_id)>>
  /\ execs' = 0
  /\ port' = <<>>
  /\ raised' = ""

\* a top-level traversal begins: a fresh visiting set (engine.rs:38) and
\* the call of execute_node (engine.rs:39)
begin_traversal(node_id) ==
  /\ visiting' = {}
  /\ stack' = <<Activation(node_id)>>
  /\ execs' = 0
  /\ port' = <<>>
  /\ raised' = ""

\* a top-level traversal has ended with outcome r
end_traversal(r) ==
  /\ last' = <<r[1], r[2], mode>>
  /\ seen' = seen @@ cache
  /\ ran' = ran

(***************************************************************************)
(* resolve(node_id), the single-node entry point: execute_node on a fresh  *)
(* visiting set, as one iteration of run() makes it.                       *)
(***************************************************************************)
Resolve(node_id) ==
  /\ mode = "idle"
  /\ calls < MaxCalls
  /\ mode' = "resolve"
  /\ calls' = calls + 1
  /\ begin_traversal(node_id)
  /\ ran' = EmptyBag
  /\ UNCHANGED <<surface, engine, ret, queue, diag, last, seen>>

ResolveReturn ==
  /\ mode = "resolve"
  /\ stack = <<>>
  /\ ret # NoRet
  /\ mode' = "idle"
  /\ ret' = NoRet
  /\ end_traversal(ret)
  /\ UNCHANGED <<surface, engine, visiting, stack, queue, diag, calls, execs, port,
                 raised>>

(***************************************************************************)
(* Engine::run (engine.rs:34-44).  node_ids is the key set of the graph in *)
(* HashMap order, which is any order.                                      *)
(***************************************************************************)
RunStart ==
  /\ mode = "idle"
  /\ calls < MaxCalls
  /\ mode' = "run"
  /\ calls' = calls + 1
  /\ queue' = DOMAIN graph
  /\ diag' = EmptyBag
  /\ ran' = EmptyBag
  /\ UNCHANGED <<surface, engine, visiting, stack, ret, execs, port, raised, last,
                 seen>>

\* the loop takes the next node_id
RunIterate(node_id) ==
  /\ mode = "run"
  /\ stack = <<>>
  /\ ret = NoRet
  /\ node_id \in queue
  /\ queue' = queue \ {node_id}
  /\ begin_traversal(node_id)
  /\ UNCHANGED <<surface, engine, ret, mode, diag, calls, history>>

\* the match of engine.rs:39-42: an error is printed, the loop goes on
RunMatch ==
  /\ mode = "run"
  /\ stack = <<>>
  /\ ret # NoRet
  /\ diag' = IF IsErr(ret[2]) THEN diag (+) SetToBag({<<ret[1], ret[2]>>}) ELSE diag
  /\ ret' = NoRet
  /\ end_traversal(ret)
  /\ UNCHANGED <<surface, engine, visiting, stack, mode, queue, calls, execs, port,
                 raised>>

\* the loop is over, run() returns
RunReturn ==
  /\ mode = "run"
  /\ stack = <<>>
  /\ ret = NoRet
  /\ queue = {}
  /\ mode' = "idle"
  /\ UNCHANGED <<surface, engine, visiting, stack, ret, queue, diag, calls, execs,
                 port, raised, history>>

(***************************************************************************)
(* Engine::execute_node (engine.rs:46-131), one action per way through     *)
(* it up to the next call of, or return from, execute_node.                *)
(***************************************************************************)
AtEnter == stack # <<>> /\ ret = NoRet /\ Top.pc = "enter"
AtArgs == stack # <<>> /\ ret = NoRet /\ Top.pc = "args"
AtAwait == stack # <<>> /\ ret # NoRet /\ Top.pc = "await"

\* 1. the cache holds node_id (engine.rs:48-50)
CacheHit ==
  /\ AtEnter
  /\ Top.node_id \in DOMAIN cache
  /\ Return(Ok(cache[Top.node_id]))
  /\ UNCHANGED <<surface, engine, visiting, mode, queue, diag, calls, execs, port,
                 raised, history>>

\* CycleCheck reporting the revisited node as absent
CycleCheckNodeNotFound ==
  /\ AtEnter
  /\ Top.node_id \notin DOMAIN cache
  /\ Top.node_id \in visiting
  /\ Return(Err(NodeNotFound(Top.node_id)))
  /\ UNCHANGED <<surface, engine, visiting, mode, queue, diag, calls, execs, port,
                 raised, history>>

\* CycleCheck letting a node that is being visited be entered again
CycleCheck_reenters ==
  /\ AtEnter
  /\ Top.node_id \notin DOMAIN cache
  /\ Top.node_id \in visiting
  /\ Top.node_id \in DOMAIN graph
  /\ LET node == graph[Top.node_id]
         typed_args_results == get_all_typed_args(node)
     IN  stack' = SetTop([Top EXCEPT !.pc = "args", !.node = node,
                                     !.typed_args = typed_args_results,
                                     !.pending = DOMAIN typed_args_results])
  /\ UNCHANGED <<surface, engine, visiting, ret, mode, queue, diag, calls, execs, port,
                 raised, history>>

\* 2. node_id is being visited (engine.rs:53-55)
CycleCheck ==
  /\ AtEnter
  /\ Top.node_id \notin DOMAIN cache
  /\ Top.node_id \in visiting
  /\ Return(Err(CycleDetected(Top.node_id)))
  /\ UNCHANGED <<surface, engine, visiting, mode, queue, diag, calls, execs, port,
                 raised, history>>

\* NodeLookupFails yielding null for an absent node
NodeLookupFailsNull ==
  /\ AtEnter
  /\ Top.node_id \notin DOMAIN cache
  /\ Top.node_id \notin visiting
  /\ Top.node_id \notin DOMAIN graph
  /\ visiting' = visiting \cup {Top.node_id}
  /\ Return(Ok(Null))
  /\ UNCHANGED <<surface, engine, mode, queue, diag, calls, execs, port, raised,
                 history>>

\* 3. node_id is inserted and is no node of the graph (engine.rs:56-61)
NodeLookupFails ==
  /\ AtEnter
  /\ Top.node_id \notin DOMAIN cache
  /\ Top.node_id \notin visiting
  /\ Top.node_id \notin DOMAIN graph
  /\ visiting' = visiting \cup {Top.node_id}
  /\ Return(Err(NodeNotFound(Top.node_id)))
  /\ UNCHANGED <<surface, engine, mode, queue, diag, calls, execs, port, raised,
                 history>>

\* NodeLookup without the cache lookup before it
NodeLookup_ignoring_cache ==
  /\ AtEnter
  /\ Top.node_id \notin visiting
  /\ Top.node_id \in DOMAIN graph
  /\ visiting' = visiting \cup {Top.node_id}
  /\ LET node == graph[Top.node_id]
         typed_args_results == get_all_typed_args(node)
     IN  stack' = SetTop([Top EXCEPT !.pc = "args", !.node = node,
                                     !.typed_args = typed_args_results,
                                     !.pending = DOMAIN typed_args_results])
  /\ UNCHANGED <<surface, engine, ret, mode, queue, diag, calls, execs, port, raised,
                 history>>

\* 3. node_id is inserted, the node is found, its arguments are decoded
\* (engine.rs:56-65)
NodeLookup ==
  /\ AtEnter
  /\ Top.node_id \notin DOMAIN cache
  /\ Top.node_id \notin visiting
  /\ Top.node_id \in DOMAIN graph
  /\ visiting' = visiting \cup {Top.node_id}
  /\ LET node == graph[Top.node_id]
         typed_args_results == get_all_typed_args(node)
     IN  stack' = SetTop([Top EXCEPT !.pc = "args", !.node = node,
                                     !.typed_args = typed_args_results,
                                     !.pending = DOMAIN typed_args_results])
  /\ UNCHANGED <<surface, engine, ret, mode, queue, diag, calls, execs, port, raised,
                 history>>

\* ArgUndecodable passing on the error of get_all_typed_args as it is, with
\* the empty node-id
ArgUndecodable_unnamed_node(key) ==
  /\ AtArgs
  /\ key \in Top.pending
  /\ IsErr(Top.typed_args[key])
  /\ Return(Top.typed_args[key])
  /\ UNCHANGED <<surface, engine, visiting, mode, queue, diag, calls, execs, port,
                 raised, history>>

\* 4. the loop takes a port that did not decode (engine.rs:67-74)
ArgUndecodable(key) ==
  /\ AtArgs
  /\ key \in Top.pending
  /\ IsErr(Top.typed_args[key])
  /\ Return(Err(MissingTypeAnnotation(Top.node_id, Top.typed_args[key][2][3])))
  /\ UNCHANGED <<surface, engine, visiting, mode, queue, diag, calls, execs, port,
                 raised, history>>

\* 4. the loop takes a literal port (engine.rs:67-77, 174-184)
ArgLiteral(key) ==
  /\ AtArgs
  /\ key \in Top.pending
  /\ IsOk(Top.typed_args[key])
  /\ ~is_reference(Top.typed_args[key][2])
  /\ LET resolved == resolve_literal(Top.typed_args[key][2], Top.node_id, key)
     IN  IF IsErr(resolved)
         THEN Return(resolved)
         ELSE /\ stack' = SetTop([Top EXCEPT
                         !.pending = @ \ {key},
                         !.resolved_args = Insert(@, key, resolved[2])])
              /\ ret' = ret
  /\ UNCHANGED <<surface, engine, visiting, mode, queue, diag, calls, execs, port,
                 raised, history>>

\* ArgReference looking the operation up before the referenced node is
\* evaluated
ArgReference_operation_first(key) ==
  /\ AtArgs
  /\ key \in Top.pending
  /\ IsOk(Top.typed_args[key])
  /\ is_reference(Top.typed_args[key][2])
  /\ IF ~OpsGet(Top.node.op)
     THEN Return(Err(UnknownOperation(Top.node.op)))
     ELSE /\ stack' = Append(SetTop([Top EXCEPT !.pc = "await", !.key = key]),
                             Activation(get_reference(Top.typed_args[key][2])))
          /\ ret' = ret
  /\ UNCHANGED <<surface, engine, visiting, mode, queue, diag, calls, execs,
                 port, raised, history>>

\* 4. the loop takes a reference port and calls execute_node on the
\* referenced node (engine.rs:67-75, 148-157)
ArgReference(key) ==
  /\ AtArgs
  /\ key \in Top.pending
  /\ IsOk(Top.typed_args[key])
  /\ is_reference(Top.typed_args[key][2])
  /\ stack' = Append(SetTop([Top EXCEPT !.pc = "await", !.key = key]),
                     Activation(get_reference(Top.typed_args[key][2])))
  /\ UNCHANGED <<surface, engine, visiting, ret, mode, queue, diag, calls, execs,
                 port, raised, history>>

\* ArgReturn taking null for a branch of a Switch node whose referenced node
\* failed
ArgReturn_branch_failure_ignored ==
  /\ AtAwait
  /\ LET key == Top.key
         typed_value == Top.typed_args[key][2]
         resolved == IF IsErr(ret[2])
                     THEN IF Top.node.op = "Switch" /\ key \in SidePorts
                          THEN Ok(Null) ELSE ret[2]
                     ELSE check_reference(typed_value, Top.node_id, key,
                                          ret[2][2], type_cache)
     IN  /\ port' = <<typed_value, ret[1], ret[2], resolved, Top.node_id, key>>
         /\ IF IsErr(resolved)
            THEN Return(resolved)
            ELSE /\ stack' = SetTop([Top EXCEPT
                            !.pc = "args", !.key = "",
                            !.pending = @ \ {key},
                            !.resolved_args = Insert(@, key, resolved[2])])
                 /\ ret' = NoRet
  /\ UNCHANGED <<surface, engine, visiting, mode, queue, diag, calls, execs, raised,
                 history>>

\* 4. execute_node(reference) has returned: its error is passed on, its
\* value is type-checked against the port (engine.rs:157-173, 75-76)
ArgReturn ==
  /\ AtAwait
  /\ LET key == Top.key
         typed_value == Top.typed_args[key][2]
         resolved == IF IsErr(ret[2]) THEN ret[2]
                     ELSE check_reference(typed_value, Top.node_id, key,
                                          ret[2][2], type_cache)
     IN  /\ port' = <<typed_value, ret[1], ret[2], resolved, Top.node_id, key>>
         /\ IF IsErr(resolved)
            THEN Return(resolved)
            ELSE /\ stack' = SetTop([Top EXCEPT
                            !.pc = "args", !.key = "",
                            !.pending = @ \ {key},
                            !.resolved_args = Insert(@, key, resolved[2])])
                 /\ ret' = NoRet
  /\ UNCHANGED <<surface, engine, visiting, mode, queue, diag, calls, execs, raised,
                 history>>

\* 5-9. every argument is resolved: operation, return type check, cache
\* writes, removal from the visiting set, result (engine.rs:79-130)
Execute ==
  /\ AtArgs
  /\ Top.pending = {}
  /\ LET done == finish_node(Top.node_id, Top.node, Top.resolved_args,
                             cache, type_cache, visiting)
     IN  /\ cache' = done.cache
         /\ type_cache' = done.type_cache
         /\ visiting' = done.visiting
         /\ Return(done.ret)
         /\ execs' = IF OpsGet(Top.node.op) THEN execs + 1 ELSE execs
         /\ raised' = IF /\ OpsGet(Top.node.op)
                         /\ IsErr(execute(Top.node.op, Top.resolved_args))
                      THEN Top.node_id ELSE raised
         /\ ran' = IF OpsGet(Top.node.op)
                   THEN ran (+) SetToBag({<<Top.node_id, IsOk(done.ret)>>})
                   ELSE ran
  /\ UNCHANGED <<surface, graph, mode, queue, diag, calls, port, last, seen>>

Next ==
  \/ \E node_id \in (DOMAIN graph) \cup ForeignIds : Resolve(node_id)
  \/ ResolveReturn
  \/ RunStart
  \/ \E node_id \in DOMAIN graph : RunIterate(node_id)
  \/ RunMatch
  \/ RunReturn
  \/ CacheHit
  \/ CycleCheck
  \/ NodeLookupFails
  \/ NodeLookup
  \/ \E key \in Pending : ArgUndecodable(key)
  \/ \E key \in Pending : ArgLiteral(key)
  \/ \E key \in Pending : ArgReference(key)
  \/ ArgReturn
  \/ Execute

Spec == Init /\ [][Next]_vars

(***************************************************************************)
(* The surface form of types on its own: an engine over the empty graph,   *)
(* a type of the closed set, printed and then parsed.                      *)
(***************************************************************************)
TypeInit ==
  /\ graph = EmptyMap
  /\ ty \in SpellTypes(MaxDepth)
  /\ text = NoText
  /\ back = NoRet
  /\ cache = EmptyMap
  /\ type_cache = EmptyMap
  /\ visiting = {}
  /\ stack = <<>>
  /\ ret = NoRet
  /\ mode = "idle"
  /\ queue = {}
  /\ diag = EmptyBag
  /\ calls = 0
  /\ last = NoRet
  /\ execs = 0
  /\ port = <<>>
  /\ raised = ""
  /\ seen = EmptyMap
  /\ ran = EmptyBag

\* to_string: the type is printed
Display ==
  /\ text = NoText
  /\ text' = fmt(ty)
  /\ UNCHANGED <<evaluator, ty, back>>

\* SpellType::parse on the printed text
Parse ==
  /\ text # NoText
  /\ back = NoRet
  /\ back' = parse(text)
  /\ UNCHANGED <<evaluator, ty, text>>

TypeNext == Display \/ Parse

TypeSpec == TypeInit /\ [][TypeNext]_vars

(***************************************************************************)
(* The reference edges of a graph.                                         *)
(***************************************************************************)
\* the node-ids the reference ports of node n point at
References(g, n) ==
  {get_reference(g[n].args[p]) :
     p \in {q \in DOMAIN g[n].args : is_reference(g[n].args[q])}}

Successors(g, S) == UNION {References(g, n) : n \in S \cap DOMAIN g}

RECURSIVE Closure(_, _)
Closure(g, R) ==
  LET next == R \cup Successors(g, R)
  IN  IF next = R THEN R ELSE Closure(g, next)

\* the node-ids reachable from n by one or more reference edges
Reachable(g, n) == Closure(g, Successors(g, {n}))

OnCycle(g, n) == n \in DOMAIN g /\ n \in Reachable(g, n)

\* the nodes on a directed cycle through n
CycleOf(g, n) == {m \in Reachable(g, n) : n \in Reachable(g, m)}

Acyclic(g) == \A n \in DOMAIN g : ~OnCycle(g, n)

\* every argument port of every node on a cycle through n is a reference
\* to a node on such a cycle
OnlyCyclePorts(g, n) ==
  \A m \in CycleOf(g, n) : \A p \in DOMAIN g[m].args :
    /\ is_reference(g[m].args[p])
    /\ get_reference(g[m].args[p]) \in CycleOf(g, n)

(***************************************************************************)
(* Properties.                                                             *)
(***************************************************************************)
\* a top-level traversal has returned to its entry point
TraversalEnded == stack = <<>> /\ ret # NoRet
ResolveEnded == mode = "resolve" /\ TraversalEnded
\* run() has iterated every node-id and is about to return
RunEnded == mode = "run" /\ queue = {} /\ stack = <<>> /\ ret = NoRet
\* the kind of the error of a result, "" for a value
ErrorKind(r) == IF IsErr(r) THEN r[2][1] ELSE ""

\* C1: once a cache key holds a value, no later step writes a different
\* value under that key (and no step removes the key).
C1_CacheMonotonic ==
  [][\A k \in DOMAIN cache : k \in DOMAIN cache' /\ cache'[k] = cache[k]]_vars

\* C2: in every reachable state, for every graph node n that declares a
\* return type T and has a cache entry under its bare node-id,
\* T.matches(cache[n]) holds.
C2_TypeSoundness ==
  \A n \in DOMAIN graph :
    (graph[n].returns # None /\ n \in DOMAIN cache)
      => matches(graph[n].returns[1], cache[n])

SecondResolve == ResolveEnded /\ last # NoRet /\ last[3] = "resolve"
                 /\ last[1] = ret[1]

\* C4, as claimed: two sequential resolve(N) calls return equal results
\* and the second executes no operation.
C4_IdempotentAnyResult ==
  SecondResolve => (ret[2] = last[2] /\ execs = 0)

\* C4, amended: when the first resolve(N) returns a value, the second
\* returns the same value and executes no operation.
C4_Idempotent ==
  (SecondResolve /\ IsOk(last[2])) => (ret[2] = last[2] /\ execs = 0)

\* C4 witness: the second resolve of a node with dependencies has returned
\* the value 5 of the first.
C4_Witness ==
  /\ graph = GraphArith
  /\ SecondResolve
  /\ ret[1] = "s"
  /\ last[2] = Ok(Flt(5, 1))

\* C5: when the evaluation of a node n returns an error, the cache entries
\* under n and "n:<port>" are what they were when the evaluation began.
C5_FailureAtomic ==
  (ret # NoRet /\ IsErr(ret[2]))
    => Restrict(cache, OwnKeys(ret[1])) = ret[3]

\* C6: a reference port {ref: R, type: T} resolves to a value iff the
\* evaluation of R returned a value v with T.matches(v), and the port's
\* value is then v.
C6_ReferenceLaw ==
  port # <<>> =>
    /\ port[2] = get_reference(port[1])
    /\ IsOk(port[4]) <=> (IsOk(port[3]) /\ matches(get_type(port[1]), port[3][2]))
    /\ IsOk(port[4]) => port[4][2] = port[3][2]

\* C6 witness: node R returned a value that the port's type does not
\* match, and the port failed.
C6_Witness ==
  /\ port # <<>>
  /\ IsOk(port[3])
  /\ ~matches(get_type(port[1]), port[3][2])
  /\ ErrorKind(port[4]) = "TypeMismatch"

\* the diagnostic lines of the run in progress for node n
DiagnosticsOf(n) == {d \in BagToSet(diag) : d[1] = n}

\* C7: when run() finishes, every node-id of the graph has a cache entry
\* or exactly one diagnostic, no node-id has more than one, and every
\* entry observed at the end of an earlier traversal is still present and
\* unchanged.
C7_RunCompletes ==
  RunEnded =>
    /\ \A n \in DOMAIN graph :
         \/ n \in DOMAIN cache
         \/ \E d \in DiagnosticsOf(n) :
              DiagnosticsOf(n) = {d} /\ CopiesIn(d, diag) = 1
    /\ \A d \in BagToSet(diag) :
         d[1] \in DOMAIN graph /\ DiagnosticsOf(d[1]) = {d}
                               /\ CopiesIn(d, diag) = 1
    /\ \A k \in DOMAIN seen : k \in DOMAIN cache /\ cache[k] = seen[k]

\* C8: every MissingInput, InvalidType and OperationError that an
\* activation returns, at any depth up to the entry point, carries the id
\* of the graph node whose operation raised it, never "unknown" or an
\* operation name.
C8_ErrorRewriting ==
  (ret # NoRet
   /\ ErrorKind(ret[2]) \in {"MissingInput", "InvalidType", "OperationError"})
    => /\ ret[2][2][2] = raised
       /\ raised \in DOMAIN graph
       /\ raised \notin RegisteredOps \cup {"unknown"}

\* C8 witness: the division by zero of the inner operation of Map node MD
\* has reached the entry point through the dependent node PD.
C8_Witness ==
  /\ graph = GraphMapErr
  /\ TraversalEnded
  /\ ret[1] = "PD"
  /\ ret[2] = Err(OperationError("MD", "Division by zero"))

C10_NoSpuriousCycle ==
  (Acyclic(graph) /\ ret # NoRet) => ErrorKind(ret[2]) # "CycleDetected"

\* C10 witness: after a traversal of d failed, the traversal of e, which
\* depends on d and shares o with it, has ended with d's error.
C10_Witness ==
  /\ graph = GraphDiv
  /\ Acyclic(graph)
  /\ last # NoRet
  /\ last[1] = "d"
  /\ TraversalEnded
  /\ ret[1] = "e"
  /\ ret[2] = Err(OperationError("d", "Division by zero"))

\* the return type node-id R declares, Any when it declares none
DeclaredReturn(R) ==
  IF R \in DOMAIN graph /\ graph[R].returns # None THEN graph[R].returns[1]
  ELSE TAny

\* C11: when a reference port declared T on node n is resolved to a value v
\* of node R that T does not match, the port fails with
\* TypeMismatch{node: n, port, expected: T, actual: A}, A the return type R
\* declares and Any when it declares none; A matches v and differs from T.
C11_TypeMismatchContent ==
  (port # <<>> /\ IsOk(port[3]) /\ ~matches(get_type(port[1]), port[3][2]))
    => LET T == get_type(port[1])
           A == DeclaredReturn(port[2])
       IN  /\ port[5] \in DOMAIN graph
           /\ port[6] \in DOMAIN graph[port[5]].args
           /\ graph[port[5]].args[port[6]] = port[1]
           /\ port[4] = Err(TypeMismatch(port[5], port[6], T, A))
           /\ matches(A, port[3][2])
           /\ A # T

\* the match relation as the type model states it
RECURSIVE TypeAccepts(_, _)
TypeAccepts(t, v) ==
  IF t = TAny THEN TRUE
  ELSE IF t = TNumber THEN is_number(v)
  ELSE IF t = TString THEN is_string(v)
  ELSE IF t = TBoolean THEN is_boolean(v)
  ELSE IF t = TUnit THEN is_null(v)
  ELSE /\ t[1] = "Array"
       /\ is_array(v)
       /\ \A i \in DOMAIN v[2] : TypeAccepts(t[2], v[2][i])

\* the literal ports the argument loop of the innermost activation can take
LiteralPorts ==
  IF AtArgs
  THEN {key \in Top.pending : /\ IsOk(Top.typed_args[key])
                              /\ ~is_reference(Top.typed_args[key][2])}
  ELSE {}

\* C12: a step of the argument loop that takes a literal port
\* {literal: v, type: t} passes v unchanged to the operation's inputs when
\* t matches v (Number/String/Boolean/Unit match JSON number/string/
\* boolean/null only, Any matches every value, Array<T> matches an array
\* whose every element matches T) and otherwise makes the node fail with
\* InvalidValue on that port.
C12_LiteralMatchLaw ==
  [][\A key \in LiteralPorts :
       LET t == get_type(Top.typed_args[key][2])
           v == get_literal(Top.typed_args[key][2])
           accepted == /\ Len(stack') = Len(stack)
                       /\ stack'[Len(stack')].pending = Top.pending \ {key}
           rejected == /\ Len(stack') = Len(stack) - 1
                       /\ ret' # NoRet
                       /\ ErrorKind(ret'[2]) = "InvalidValue"
                       /\ ret'[2][2][3] = key
       IN  /\ accepted =>
                /\ TypeAccepts(t, v)
                /\ stack'[Len(stack')].resolved_args
                     = Insert(Top.resolved_args, key, v)
           /\ rejected =>
                /\ ~TypeAccepts(t, v)
                /\ ret'[2] = Err(InvalidValue(Top.node_id, key, t, format(v)))
           /\ TypeAccepts(t, v) <=> matches(t, v)]_vars

\* C12 witness: the literal [1, "x"] declared Array<Number> has been
\* rejected with InvalidValue on its port.
C12_Witness ==
  /\ graph = GraphLiteral(Arr(<<Num(1), Str("x")>>), TArray(TNumber))
  /\ ret # NoRet
  /\ ret[2] = Err(InvalidValue("n", "value", TArray(TNumber),
                               format(Arr(<<Num(1), Str("x")>>))))

\* the innermost activation is about to execute operation op_name on its
\* resolved arguments
Executes(op_name) == AtArgs /\ Top.pending = {} /\ Top.node.op = op_name

\* the inputs are those of the Map / Filter contract: list an array,
\* apply_op and arg strings, params absent or an object
ApplyContract(inputs) ==
  /\ {"list", "apply_op", "arg"} \subseteq DOMAIN inputs
  /\ is_array(inputs["list"])
  /\ is_string(inputs["apply_op"])
  /\ is_string(inputs["arg"])
  /\ "params" \in DOMAIN inputs => is_object(inputs["params"])

\* the result of the i-th inner call: apply_op on params overlaid with
\* {arg: list[i]}
InnerCall(inputs, i) ==
  LET params == IF "params" \in DOMAIN inputs THEN inputs["params"][2]
                ELSE EmptyMap
      item == (inputs["arg"][2] :> inputs["list"][2][i])
  IN  execute(inputs["apply_op"][2],
              [key \in (DOMAIN params) \cup (DOMAIN item) |->
                 IF key \in DOMAIN item THEN item[key] ELSE params[key]])

\* the indices of the inner calls that fail
InnerFailures(inputs) ==
  {i \in DOMAIN inputs["list"][2] : IsErr(InnerCall(inputs, i))}

FirstFailure(inputs) ==
  CHOOSE i \in InnerFailures(inputs) : \A j \in InnerFailures(inputs) : i <= j

\* C13: a Map node whose inputs follow the contract returns, for a list of
\* length k and a registered apply_op, the array of length k whose i-th
\* element is the "out" of apply_op on params overlaid with {arg: list[i]}
\* (null when there is no "out"); the error of the first failing inner
\* call fails the node; an unregistered apply_op gives UnknownOperation
\* whatever the list.
C13_MapContract ==
  [][(Executes("Map") /\ ApplyContract(Top.resolved_args)) =>
       LET inputs == Top.resolved_args
           k == Len(inputs["list"][2])
           out == [i \in 1..k |->
                     LET r == InnerCall(inputs, i)[2]
                     IN  IF "out" \in DOMAIN r THEN r["out"] ELSE Null]
       IN  /\ ret' # NoRet
           /\ ret'[1] = Top.node_id
           /\ ret'[2] =
                IF inputs["apply_op"][2] \notin RegisteredOps
                THEN Err(UnknownOperation(inputs["apply_op"][2]))
                ELSE IF InnerFailures(inputs) # {}
                THEN Err(rewrite(InnerCall(inputs, FirstFailure(inputs))[2],
                                 Top.node_id))
                ELSE IF Top.node.returns # None
                        /\ ~matches(Top.node.returns[1], Arr(out))
                THEN Err(InvalidValue(Top.node_id, "out", Top.node.returns[1],
                                      format(Arr(out))))
                ELSE Ok(Arr(out))]_vars

\* C13 witness: Map of Add over [2, 0, 1] with params {a: 5, b: 1} and the
\* item under "a" has returned [3, 1, 2], the item winning over the static
\* parameter of the same name.
C13_Witness ==
  /\ graph = GraphApply(<<2, 0, 1>>, "Add", "a", [a |-> Num(5), b |-> Num(1)])
  /\ ret # NoRet
  /\ ret[1] = "M"
  /\ ret[2] = Ok(Arr(<<Flt(3, 1), Flt(1, 1), Flt(2, 1)>>))

\* C14: a Filter node whose inputs follow the contract returns exactly the
\* subsequence of list, in input order and with the elements unchanged, of
\* the elements for which apply_op on params overlaid with {arg: element}
\* returned "out" equal to the boolean true; an element whose inner "out"
\* is missing or no boolean is dropped and does not fail the node.
C14_FilterContract ==
  [][(/\ Executes("Filter")
      /\ ApplyContract(Top.resolved_args)
      /\ Top.resolved_args["apply_op"][2] \in RegisteredOps
      /\ InnerFailures(Top.resolved_args) = {}) =>
       LET inputs == Top.resolved_args
           list == inputs["list"][2]
           kept == SelectSeq([i \in 1..Len(list) |-> i],
                             LAMBDA i : LET r == InnerCall(inputs, i)[2]
                                        IN  /\ "out" \in DOMAIN r
                                            /\ r["out"] = Bool(TRUE))
           out == Arr([j \in 1..Len(kept) |-> list[kept[j]]])
       IN  /\ ret' # NoRet
           /\ ret'[1] = Top.node_id
           /\ ret'[2] =
                IF Top.node.returns # None /\ ~matches(Top.node.returns[1], out)
                THEN Err(InvalidValue(Top.node_id, "out", Top.node.returns[1],
                                      format(out)))
                ELSE Ok(out)]_vars

\* C14 witness: Filter of Gt over [2, 0, 1] with params {a: 1} and the item
\* under "b" has kept [0], the one element 1 is greater than.
C14_Witness ==
  /\ graph = GraphApply(<<2, 0, 1>>, "Gt", "b", [a |-> Num(1)])
  /\ ret # NoRet
  /\ ret[1] = "F"
  /\ ret[2] = Ok(Arr(<<Num(0)>>))

\* a Filter whose inner operation returns numbers has dropped every element
C14_NonBooleanDropped ==
  /\ graph = GraphApply(<<2, 0, 1>>, "Add", "a", [b |-> Num(1)])
  /\ ret # NoRet
  /\ ret[1] = "F"
  /\ ret[2] = Ok(Arr(<<>>))

\* the hard-coded defaults of the ports that name the argument keys
KeyNameDefaults(op_name) ==
  CASE op_name = "Map" -> [arg |-> Str("in")]
    [] op_name = "Filter" -> [arg |-> Str("a")]
    [] op_name = "Reduce" -> [acc_arg |-> Str("a"), item_arg |-> Str("b")]

\* C15: a Map, Filter or Reduce node executed without a port that names an
\* argument key (arg; acc_arg, item_arg) returns what it returns with that
\* port set to the default ("in" for Map, "a" for Filter, "a" and "b" for
\* Reduce), and so does not fail for the absent port.
C15_KeyNameDefaults ==
  [][\A op_name \in {"Map", "Filter", "Reduce"} :
       (/\ Executes(op_name)
        /\ ~(DOMAIN KeyNameDefaults(op_name) \subseteq DOMAIN Top.resolved_args))
         => /\ ret' # NoRet
            /\ ret'[2] = finish_node(Top.node_id, Top.node,
                                     Top.resolved_args @@ KeyNameDefaults(op_name),
                                     cache, type_cache, visiting).ret]_vars

\* a Map whose arg port holds a number has used the default key "in"
C15_NonStringDefault ==
  /\ graph = GraphDefaults
  /\ ret # NoRet
  /\ ret[1] = "MN"
  /\ ret[2] = Ok(NumList(<<1, 2>>))

\* C16: a Switch node n with a boolean cond that is evaluated to a value:
\* with both "true" and "false" among its inputs it returns the branch cond
\* selects and writes the cache under n only (whether or not "data" is
\* present); otherwise it returns data and writes data under n and under
\* the one of "n:true" / "n:false" that cond selects, and the cache then
\* holds n and exactly one of "n:true" / "n:false".
C16_SwitchModes ==
  [][(/\ Executes("Switch")
      /\ "cond" \in DOMAIN Top.resolved_args
      /\ is_boolean(Top.resolved_args["cond"])
      /\ {"true", "false"} \subseteq DOMAIN Top.resolved_args
          \/ "data" \in DOMAIN Top.resolved_args) =>
       LET inputs == Top.resolved_args
           n == Top.node_id
           cond == inputs["cond"][2]
           selected == IF cond THEN "true" ELSE "false"
           unselected == IF cond THEN "false" ELSE "true"
           branch == {"true", "false"} \subseteq DOMAIN inputs
           out == IF branch THEN inputs[selected] ELSE inputs["data"]
       IN  (Top.node.returns = None \/ matches(Top.node.returns[1], out)) =>
             /\ ret' # NoRet
             /\ ret'[2] = Ok(out)
             /\ n \in DOMAIN cache' /\ cache'[n] = out
             /\ branch =>
                  \A k \in DOMAIN cache' \ {n} :
                    k \in DOMAIN cache /\ cache'[k] = cache[k]
             /\ ~branch =>
                  /\ CacheKey(n, selected) \in DOMAIN cache'
                  /\ cache'[CacheKey(n, selected)] = out
                  /\ CacheKey(n, unselected) \notin DOMAIN cache'
                  /\ \A k \in DOMAIN cache' \ {n, CacheKey(n, selected)} :
                       k \in DOMAIN cache /\ cache'[k] = cache[k]]_vars

HigherOrderOps == {"Map", "Reduce", "Filter"}

\* C17: the step in which a Map, Reduce or Filter node n executes returns
\* what it returns on empty caches and an empty visiting set, leaves every
\* cache and type-cache entry other than n's as it was, removes at most n
\* from the visiting set, and, when apply_op is the id of a graph node and
\* no registered operation, fails with UnknownOperation(apply_op).
C17_HigherOrderIsolation ==
  [][\A op_name \in HigherOrderOps : Executes(op_name) =>
       LET n == Top.node_id
           inputs == Top.resolved_args
           alone == finish_node(n, Top.node, inputs, EmptyMap, EmptyMap, {n})
       IN  /\ ret' # NoRet
           /\ ret'[2] = alone.ret
           /\ DOMAIN cache' \subseteq (DOMAIN cache) \cup {n}
           /\ \A k \in DOMAIN cache : k \in DOMAIN cache'
           /\ \A k \in (DOMAIN cache) \ {n} : cache'[k] = cache[k]
           /\ DOMAIN type_cache' \subseteq (DOMAIN type_cache) \cup {n}
           /\ \A k \in (DOMAIN type_cache) \ {n} :
                k \in DOMAIN type_cache' /\ type_cache'[k] = type_cache[k]
           /\ visiting' \subseteq visiting /\ visiting \ visiting' \subseteq {n}
           /\ (/\ "apply_op" \in DOMAIN inputs
               /\ is_string(inputs["apply_op"])
               /\ inputs["apply_op"][2] \in (DOMAIN graph) \ RegisteredOps
               /\ IsOk(execute(op_name, [apply_op |-> Str("Add")] @@ inputs)))
                => ret'[2] = Err(UnknownOperation(inputs["apply_op"][2]))]_vars

\* C17 witness: with node k evaluated and cached, the Map node MU whose
\* apply_op is "k" has failed with UnknownOperation("k").
C17_Witness ==
  /\ graph = GraphMapUnknown
  /\ "k" \in DOMAIN cache
  /\ ret # NoRet
  /\ ret[1] = "MU"
  /\ ret[2] = Err(UnknownOperation("k"))

\* the executions of node n's operation since run() was called
Executions(n) == CopiesIn(<<n, TRUE>>, ran) + CopiesIn(<<n, FALSE>>, ran)

RECURSIVE SumOver(_, _)
SumOver(f, S) ==
  IF S = {} THEN 0
  ELSE LET x == CHOOSE y \in S : TRUE IN f[x] + SumOver(f, S \ {x})

\* a bound on the steps an evaluation of node n takes outside the
\* evaluations of its dependencies
Work(n) == 4 * Cardinality(DOMAIN get_all_typed_args(graph[n])) + 4

\* a bound on the steps activation act has still to take itself
Remaining(act) ==
  CASE act.pc = "enter" -> 2
    [] act.pc = "args" -> 4 * Cardinality(act.pending) + 2
    [] act.pc = "await" -> 4 * Cardinality(act.pending) - 1

\* a bound on the steps the entry point in progress has still to take:
\* the nodes the traversal can still look up, the activations in progress,
\* the result to hand over, and every traversal run() has still to make
StepsLeft ==
  IF mode = "idle" THEN 0
  ELSE LET all == SumOver([n \in DOMAIN graph |-> Work(n)], DOMAIN graph)
           fresh == (DOMAIN graph) \ (visiting \cup DOMAIN cache)
       IN  1 + (all + 3) * Cardinality(queue)
             + (IF ret # NoRet THEN 1 ELSE 0)
             + SumOver([n \in DOMAIN graph |-> Work(n)], fresh)
             + SumOver([i \in DOMAIN stack |-> Remaining(stack[i])],
                       DOMAIN stack)

\* the steps of the entry point in progress other than Execute
Stepping ==
  \/ ResolveReturn
  \/ \E node_id \in DOMAIN graph : RunIterate(node_id)
  \/ RunMatch
  \/ RunReturn
  \/ CacheHit
  \/ CycleCheck
  \/ NodeLookupFails
  \/ NodeLookup
  \/ \E key \in Pending : ArgUndecodable(key)
  \/ \E key \in Pending : ArgLiteral(key)
  \/ \E key \in Pending : ArgReference(key)
  \/ ArgReturn

\* the entry point in progress can take a step; Execute is a step of every
\* activation whose arguments are all resolved
CanStep == (AtArgs /\ Top.pending = {}) \/ ENABLED Stepping

\* C19: every call of resolve and of run() returns: while a call is in
\* progress it can take a step, and every step it takes lowers a bound on
\* the steps it has left; the number of activations of execute_node in
\* progress never exceeds the number of node-ids the traversal has
\* inserted into its visiting set plus one.
C19_Termination ==
  /\ [](Len(stack) <= Cardinality(visiting) + 1)
  /\ [](mode # "idle" => (StepsLeft > 0 /\ CanStep))
  /\ [][mode # "idle" => StepsLeft' < StepsLeft]_vars

\* C19 witness: in the graph where a leads into the cycle of b and c, the
\* traversal of a has reached b again, four activations deep with three
\* node-ids in the visiting set.
C19_Witness ==
  /\ graph = GraphLoop
  /\ Len(stack) = 4
  /\ Cardinality(visiting) = 3
  /\ Top.node_id \in visiting

\* C20: for every type T of the closed set, Array nested up to the bound,
\* parse of the printed form of T succeeds and yields T.
C20_RoundTrip == back # NoRet => back = Ok(ty)

\* C20 witness: Array<Array<Number>> has been printed and parsed back.
C20_Witness ==
  /\ ty = TArray(TArray(TNumber))
  /\ text = ArrayOpenText \o ArrayOpenText \o NumberText \o <<">", ">">>
  /\ back = Ok(ty)

\* the traversal in progress has not failed
NotFailed == stack # <<>> /\ (ret = NoRet \/ IsOk(ret[2]))

\* the node-ids whose evaluation has passed the cycle check and has not
\* completed
Chain ==
  {stack[i].node_id : i \in {j \in DOMAIN stack : stack[j].pc # "enter"}}

\* C21: while a traversal has not failed, the visiting set is the set of
\* node-ids whose evaluation has passed the cycle check and has not
\* completed; a node-id that has just returned a value, computed or served
\* from the cache, is not in the set, and neither is one about to be
\* served from the cache.
C21_VisitingSet ==
  NotFailed =>
    /\ visiting = Chain
    /\ ret # NoRet => ret[1] \notin visiting
    /\ (AtEnter /\ Top.node_id \in DOMAIN cache) => Top.node_id \notin visiting

\* the first part of C21 alone: the visiting set is the dependency chain
C21_VisitingIsChain == NotFailed => visiting = Chain

\* C22: in every state, every node-id n in the type cache is a graph node
\* that declares a return type, type_cache[n] is that type and the cache
\* holds n; a node whose operation was executed in an evaluation that
\* returned an error (the operation or the return check failed) has no
\* type-cache entry.
C22_TypeCache ==
  /\ \A n \in DOMAIN type_cache :
       /\ n \in DOMAIN graph
       /\ graph[n].returns # None
       /\ type_cache[n] = graph[n].returns[1]
       /\ n \in DOMAIN cache
  /\ \A n \in DOMAIN graph :
       BagIn(<<n, FALSE>>, ran) => n \notin DOMAIN type_cache

\* the first part of C22 alone: the entries of the type cache
C22_TypeCacheEntries ==
  \A n \in DOMAIN type_cache :
    /\ n \in DOMAIN graph
    /\ graph[n].returns # None
    /\ type_cache[n] = graph[n].returns[1]
    /\ n \in DOMAIN cache

\* the innermost activation, past the node lookup, returns in this step
Returns == stack # <<>> /\ Top.pc # "enter" /\ Len(stack') < Len(stack)

\* C23: an evaluation of a node whose operation is not registered returns
\* an error; while a port is still to be resolved the error is that of a
\* port (the error of the referenced node, or TypeMismatch, InvalidValue
\* or MissingTypeAnnotation on this node), and it is
\* UnknownOperation(op) only when every port is resolved, every
\* referenced node-id then being a key of the cache.
C23_StepOrdering ==
  [][(Returns /\ ~OpsGet(Top.node.op)) =>
       /\ ret' # NoRet
       /\ IsErr(ret'[2])
       /\ Top.pending # {} =>
            IF Top.pc = "await" /\ IsErr(ret[2]) THEN ret'[2] = ret[2]
            ELSE /\ ErrorKind(ret'[2]) \in
                      {"TypeMismatch", "InvalidValue", "MissingTypeAnnotation"}
                 /\ ret'[2][2][2] = Top.node_id
       /\ Top.pending = {} =>
            /\ ret'[2] = Err(UnknownOperation(Top.node.op))
            /\ References(graph, Top.node_id) \subseteq DOMAIN cache
            /\ DOMAIN Top.resolved_args = DOMAIN Top.typed_args]_vars

\* C23 witness: node u with the unregistered operation Frob has failed with
\* UnknownOperation after the node k it refers to was evaluated and cached.
C23_Witness ==
  /\ graph = GraphErrors
  /\ TraversalEnded
  /\ ret[1] = "u"
  /\ ret[2] = Err(UnknownOperation("Frob"))
  /\ "k" \in DOMAIN cache
  /\ execs = 1

\* node u with the unregistered operation Frob has failed with the error
\* of the node r it refers to
C23_ArgumentErrorFirst ==
  /\ graph = GraphValues
  /\ TraversalEnded
  /\ ret[1] = "u"
  /\ ErrorKind(ret[2]) = "InvalidValue"
  /\ ret[2][2][2] = "r"

\* the ports of a node whose value does not decode
UndecodablePorts(node) ==
  {p \in (DOMAIN node.args) \ {"op", "returns"} : node.args[p] = Undecodable}

\* the operation of node-id n has been executed in the current call
HasRun(n) == BagIn(<<n, TRUE>>, ran) \/ BagIn(<<n, FALSE>>, ran)

C24_OtherPortFirst ==
  /\ graph = GraphUntyped
  /\ TraversalEnded
  /\ ret[1] = "m"
  /\ ErrorKind(ret[2]) = "InvalidValue"

\* a Switch node whose "true" and "false" ports are both references
BranchSelection(node) ==
  /\ node.op = "Switch"
  /\ SidePorts \subseteq DOMAIN node.args
  /\ \A p \in SidePorts :
       node.args[p] # Undecodable /\ is_reference(node.args[p])

\* C25: a Switch node whose "true" and "false" ports are references
\* executes its operation only when both ports are resolved, whatever cond
\* is, both referenced node-ids then being keys of the cache; when the
\* evaluation of the node referenced by either port returns an error (a
\* CycleDetected included), the Switch node returns that error in the
\* next step without executing; and when the Switch node returns a value,
\* both referenced node-ids are keys of the cache.
C25_EagerBranches ==
  /\ []((Executes("Switch") /\ BranchSelection(Top.node)) =>
          \A p \in SidePorts :
             /\ p \in DOMAIN Top.resolved_args
             /\ get_reference(Top.node.args[p]) \in DOMAIN cache)
  /\ [][(/\ AtAwait
         /\ BranchSelection(Top.node)
         /\ Top.key \in SidePorts
         /\ IsErr(ret[2])) =>
           /\ Len(stack') < Len(stack)
           /\ ret' # NoRet
           /\ ret'[1] = Top.node_id
           /\ ret'[2] = ret[2]
           /\ execs' = execs]_vars
  /\ [][(/\ Returns
         /\ BranchSelection(Top.node)
         /\ ret' # NoRet
         /\ IsOk(ret'[2])) =>
           /\ Top.pending = {}
           /\ \A p \in SidePorts :
                get_reference(Top.node.args[p]) \in DOMAIN cache']_vars

\* C25 witness: Switch node sx has failed with the OperationError of f, the
\* node of its "false" port, after cond was resolved to true and the node of
\* its "true" port was evaluated and cached.
C25_Witness ==
  /\ graph = GraphBranchFail
  /\ TraversalEnded
  /\ ret[1] = "sx"
  /\ ErrorKind(ret[2]) = "OperationError"
  /\ "c" \in DOMAIN cache /\ cache["c"] = Bool(TRUE)
  /\ "t" \in DOMAIN cache
  /\ "sx" \notin DOMAIN cache

\* Switch node sy has failed with the CycleDetected that its "false"
\* port leads to, cond being true
C25_UnselectedCycle ==
  /\ graph = GraphBranchCycle
  /\ TraversalEnded
  /\ ret[1] = "sy"
  /\ ErrorKind(ret[2]) = "CycleDetected"
  /\ "c" \in DOMAIN cache

\* Switch node sw has returned the value of its "true" port, and the nodes
\* of both branches are cached
C25_BothCached ==
  /\ graph = GraphBranch
  /\ TraversalEnded
  /\ ret[1] = "sw"
  /\ ret[2] = Ok(Num(1))
  /\ {"t", "g"} \subseteq DOMAIN cache

\* What the evaluation of node-id n of graph g comes to when nothing is
\* cached, whatever the order of its ports: the result, and the cache and
\* type-cache entries it writes.  path holds the node-ids being evaluated;
\* of several failing ports the error of any one stands for the failure.
RECURSIVE Outcome(_, _, _)
Outcome(g, n, path) ==
  LET failed(e) == [ret |-> e, cache |-> EmptyMap, type_cache |-> EmptyMap]
  IN  IF n \in path THEN failed(Err(CycleDetected(n)))
      ELSE IF n \notin DOMAIN g THEN failed(Err(NodeNotFound(n)))
      ELSE
        LET typed_args == get_all_typed_args(g[n])
            resolved ==
              [p \in DOMAIN typed_args |->
                 IF IsErr(typed_args[p]) THEN typed_args[p]
                 ELSE IF ~is_reference(typed_args[p][2])
                 THEN resolve_literal(typed_args[p][2], n, p)
                 ELSE LET r == Outcome(g, get_reference(typed_args[p][2]),
                                       path \cup {n})
                      IN  IF IsErr(r.ret) THEN r.ret
                          ELSE check_reference(typed_args[p][2], n, p,
                                               r.ret[2], r.type_cache)]
            failing == {p \in DOMAIN resolved : IsErr(resolved[p])}
        IN  IF failing # {} THEN failed(resolved[CHOOSE p \in failing : TRUE])
            ELSE LET done == finish_node(n, g[n],
                                         [p \in DOMAIN resolved |-> resolved[p][2]],
                                         EmptyMap, EmptyMap, {})
                 IN  [ret |-> done.ret, cache |-> done.cache,
                      type_cache |-> done.type_cache]

\* the union of the entries the node-ids of g write, each evaluated on its
\* own
Entries(g, field) ==
  LET written(n) == Outcome(g, n, {})[field]
      keys == UNION {DOMAIN written(n) : n \in DOMAIN g}
  IN  [k \in keys |->
         written(CHOOSE n \in DOMAIN g : k \in DOMAIN written(n))[k]]

\* the node-ids of the diagnostic lines of the run() in progress
Reported == {d[1] : d \in BagToSet(diag)}

\* C26: when the first run() of an engine has iterated every node-id, the
\* cache, the type cache and the set of node-ids that reported an error
\* are those the graph alone determines (the entries each node writes when
\* it is evaluated on its own, and the node-ids whose evaluation on their
\* own fails), whatever the order of iteration and of port resolution was.
C26_OrderIndependent ==
  (RunEnded /\ calls = 1) =>
     /\ cache = Entries(graph, "cache")
     /\ type_cache = Entries(graph, "type_cache")
     /\ Reported = {n \in DOMAIN graph : IsErr(Outcome(graph, n, {}).ret)}

\* two ends of the first run() on GraphRouteSelf: no node-id reported an
\* error and "s:true" holds the data of s; "s:true" reported an error
C26_RunAllServed ==
  /\ graph = GraphRouteSelf
  /\ RunEnded /\ calls = 1
  /\ Reported = {}
  /\ cache["s:true"] = Num(7)
  /\ type_cache = EmptyMap

C26_RunOneReported ==
  /\ graph = GraphRouteSelf
  /\ RunEnded /\ calls = 1
  /\ Reported = {"s:true"}

\* a third end: "s:true" was evaluated to a value of its own
C26_RunOwnValue ==
  /\ graph = GraphRouteSelf
  /\ RunEnded /\ calls = 1
  /\ Reported = {}
  /\ "s:true" \in DOMAIN type_cache

====
